---- MODULE Spec2Model ----
(***************************************************************************)
(* Model of the attendance state machine of                                *)
(* streamlit_employee_tracker_final.py: the day's "Daily Logs" worksheet,  *)
(* the Streamlit session of an employee, and the handlers that a script    *)
(* run executes (handle_login, the Start Break / End Break buttons of      *)
(* render_time_tracking_controls, handle_logout, the sidebar Logout).      *)
(*                                                                         *)
(* Representation.                                                         *)
(*  - A worksheet cell is a sequence: <<>> is the blank cell (""), a       *)
(*    timestamp cell is <<t>> with t in whole seconds (strftime with       *)
(*    "%Y-%m-%d %H:%M:%S" drops the sub-second part of datetime.now()),    *)
(*    a duration cell is the sequence of the characters of "HH:MM", a      *)
(*    status cell is <<status string>>, an overtime cell is <<h>> with h   *)
(*    the hundredths of an hour of the rendered "x.yz hours".              *)
(*  - Python's None and "" are both falsy and the handlers only test the   *)
(*    fields of an EmployeeRecord for truth, so both are <<>>.             *)
(*  - A float number of minutes is carried as its exact number of seconds  *)
(*    (minutes = seconds / 60); the arithmetic is exact, IEEE rounding of  *)
(*    the division by 60 is not modelled.                                  *)
(***************************************************************************)
EXTENDS Integers, Sequences, FiniteSets, TLC

VARIABLES sheet, session, now, last, call

vars == <<sheet, session, now, last, call>>

(***************************************************************************)
(* Bounds of the model.                                                    *)
(***************************************************************************)
\* number of clock instants after the first one; instants are 30 s apart
MaxTick == 2

Instants == {30 * k : k \in 0..MaxTick}

Employees == {"emp1"}

Sessions == {"s1"}

(***************************************************************************)
(* Program constants.                                                      *)
(***************************************************************************)
STANDARD_WORK_HOURS == 480

MAX_BREAK_MINUTES == 50

\* seconds
SESSION_TIMEOUT == 1800

\* st.session_state.user = None
NoUser == "None"

\* st.session_state.row_index = None
NoRow == 0

EmployeeStatus ==
    [COMPLETED |-> "Completed", INCOMPLETE |-> "Incomplete", OVER_BREAK |-> "Over Break"]

(***************************************************************************)
(* Characters and decimal rendering (the f-string format spec "02").       *)
(***************************************************************************)
DigitChar == <<"0", "1", "2", "3", "4", "5", "6", "7", "8", "9">>

IsDigit(c) == \E i \in 1..10 : DigitChar[i] = c

DigitVal(c) == (CHOOSE i \in 1..10 : DigitChar[i] = c) - 1

RECURSIVE Digits(_)
Digits(n) ==
    IF n < 10 THEN <<DigitChar[n + 1]>>
    ELSE Digits(n \div 10) \o <<DigitChar[(n % 10) + 1]>>

\* f"{n:02}": sign and digits, zero-padded to a width of two
Pad2(n) ==
    IF n < 0 THEN <<"-">> \o Digits(-n)
    ELSE IF n < 10 THEN <<"0">> \o Digits(n)
    ELSE Digits(n)

\* format_duration rounding the minutes to the nearest instead of flooring
format_duration_round(secs) ==
    LET hrs  == secs \div 3600
        mins == ((secs % 3600) + 30) \div 60
    IN  Pad2(hrs) \o <<":">> \o Pad2(mins)

\* format_duration(minutes) with minutes = secs / 60:
\* hrs = int(minutes // 60), mins = int(minutes % 60), both floored
format_duration(secs) ==
    LET hrs  == secs \div 3600
        mins == (secs % 3600) \div 60
    IN  Pad2(hrs) \o <<":">> \o Pad2(mins)

(***************************************************************************)
(* Parsing "HH:MM" (time_str_to_minutes).                                  *)
(***************************************************************************)
RECURSIVE SplitColon(_)
\* str.split(":")
SplitColon(s) ==
    IF \A i \in 1..Len(s) : s[i] # ":" THEN <<s>>
    ELSE LET i == CHOOSE j \in 1..Len(s) :
                     s[j] = ":" /\ \A k \in 1..(j - 1) : s[k] # ":"
         IN  <<SubSeq(s, 1, i - 1)>> \o SplitColon(SubSeq(s, i + 1, Len(s)))

RECURSIVE DigitsVal(_)
DigitsVal(p) ==
    IF Len(p) = 0 THEN 0
    ELSE 10 * DigitsVal(SubSeq(p, 1, Len(p) - 1)) + DigitVal(p[Len(p)])

\* int(p) succeeds on an optional sign followed by at least one digit
IntOk(p) ==
    LET d == IF Len(p) > 0 /\ p[1] = "-" THEN Tail(p) ELSE p
    IN  Len(d) > 0 /\ \A i \in 1..Len(d) : IsDigit(d[i])

IntOf(p) ==
    IF p[1] = "-" THEN 0 - DigitsVal(Tail(p)) ELSE DigitsVal(p)

\* time_str_to_minutes dropping the hours
time_str_to_minutes_minutes_only(time_str) ==
    IF time_str = <<>> THEN 0
    ELSE LET parts == SplitColon(time_str)
         IN  IF Len(parts) = 2 /\ IntOk(parts[1]) /\ IntOk(parts[2])
             THEN IntOf(parts[2])
             ELSE 0

time_str_to_minutes(time_str) ==
    IF time_str = <<>> THEN 0
    ELSE LET parts == SplitColon(time_str)
         IN  IF Len(parts) = 2 /\ IntOk(parts[1]) /\ IntOk(parts[2])
             THEN IntOf(parts[1]) * 60 + IntOf(parts[2])
             ELSE 0

\* evaluate_status deciding Completed on the work time alone
evaluate_status_work_first(break_duration, work_duration) ==
    LET break_min == time_str_to_minutes(break_duration)
        work_min  == time_str_to_minutes(work_duration)
    IN  IF work_min >= STANDARD_WORK_HOURS
        THEN EmployeeStatus.COMPLETED
        ELSE IF break_min > MAX_BREAK_MINUTES
        THEN EmployeeStatus.OVER_BREAK
        ELSE EmployeeStatus.INCOMPLETE

evaluate_status(break_duration, work_duration) ==
    LET break_min == time_str_to_minutes(break_duration)
        work_min  == time_str_to_minutes(work_duration)
    IN  IF work_min >= STANDARD_WORK_HOURS /\ break_min <= MAX_BREAK_MINUTES
        THEN EmployeeStatus.COMPLETED
        ELSE IF break_min > MAX_BREAK_MINUTES
        THEN EmployeeStatus.OVER_BREAK
        ELSE EmployeeStatus.INCOMPLETE

\* round(x, 2) of x = secs / 3600 hours, in hundredths: round half to even
RoundHundredths(secs) ==
    LET q == secs \div 36
        r == secs % 36
    IN  IF r < 18 THEN q
        ELSE IF r > 18 THEN q + 1
        ELSE IF q % 2 = 0 THEN q ELSE q + 1

\* calculate_overtime without the max(0, ..)
calculate_overtime_unclamped(login_time, logout_time, break_secs) ==
    LET total_secs  == logout_time - login_time
        worked_secs == total_secs - break_secs
        over        == worked_secs - STANDARD_WORK_HOURS * 60
    IN  RoundHundredths(over)

\* calculate_overtime(login_time, logout_time, break_mins), break_mins = break_secs / 60
calculate_overtime(login_time, logout_time, break_secs) ==
    LET total_secs  == logout_time - login_time
        worked_secs == total_secs - break_secs
        over        == worked_secs - STANDARD_WORK_HOURS * 60
        overtime    == IF over > 0 THEN over ELSE 0
    IN  RoundHundredths(overtime)

(***************************************************************************)
(* The day's worksheet ("Daily Logs <today>") and reading a record.        *)
(***************************************************************************)
Blank == <<>>

\* the header row connect_to_google_sheets appends to a new worksheet
Header ==
    << <<"Employee Name">>, <<"Login Time">>, <<"Logout Time">>,
       <<"Break Start">>, <<"Break End">>, <<"Break Duration">>,
       <<"Total Work Time">>, <<"Status">>, <<"Overtime">> >>

\* the row handle_login appends: [username, get_current_datetime_str()] + [""]*7
NewRow(username, t) ==
    << <<username>>, <<t>>, Blank, Blank, Blank, Blank, Blank, Blank, Blank >>

\* Python truthiness of a cell value or of None
Truthy(v) == Len(v) > 0

\* strptime(cell, "%Y-%m-%d %H:%M:%S")
strptime(cell) == cell[1]

\* strftime("%Y-%m-%d %H:%M:%S") / get_current_datetime_str()
strftime(t) == <<t>>

RECURSIVE TrimRow(_)
\* gspread drops the trailing blank cells of a row it returns
TrimRow(row) ==
    IF Len(row) > 0 /\ Len(row[Len(row)]) = 0
    THEN TrimRow(SubSeq(row, 1, Len(row) - 1))
    ELSE row

\* sheet.row_values(row_index)
row_values(sh, row_index) ==
    IF row_index \in 1..Len(sh) THEN TrimRow(sh[row_index]) ELSE <<>>

\* EmployeeRecord(name="")
EmptyRecord ==
    [name |-> Blank, login_time |-> Blank, logout_time |-> Blank,
     break_start |-> Blank, break_end |-> Blank, break_duration |-> Blank,
     work_time |-> Blank, status |-> Blank, overtime |-> Blank]

\* get_employee_record(sheet, row_index); readOk = FALSE is row_values raising
get_employee_record(sh, row_index, readOk) ==
    IF ~readOk THEN EmptyRecord
    ELSE LET row == row_values(sh, row_index)
             At(i) == IF Len(row) > i THEN row[i + 1] ELSE Blank
         IN  [name |-> At(0), login_time |-> At(1), logout_time |-> At(2),
              break_start |-> At(3), break_end |-> At(4),
              break_duration |-> At(5), work_time |-> At(6),
              status |-> At(7), overtime |-> At(8)]

\* a row of the worksheet's grid that holds no data
BlankRow == [c \in 1..9 |-> Blank]

\* sheet.update_cell(row_index, col, value): the worksheet is a grid of 100
\* rows, so a cell below the last row of data can be written; the rows in
\* between then read as blank rows
update_cell(sh, row_index, col, value) ==
    LET grid == IF row_index > Len(sh)
                THEN sh \o [i \in 1..(row_index - Len(sh)) |-> BlankRow]
                ELSE sh
    IN  [grid EXCEPT ![row_index][col] = value]

RECURSIVE ApplyWrites(_, _, _, _)
\* the first k update_cell calls of a handler, in program order
ApplyWrites(sh, row_index, writes, k) ==
    IF k = 0 THEN sh
    ELSE LET w == writes[k]
         IN  update_cell(ApplyWrites(sh, row_index, writes, k - 1),
                         row_index, w[1], w[2])

(***************************************************************************)
(* Handlers.  Each returns the message it reports and the update_cell      *)
(* calls it makes, in order, as <<column, value>> pairs.                   *)
(***************************************************************************)
start_disabled(employee) ==
    Truthy(employee.break_start) /\ ~Truthy(employee.break_end)

\* end_disabled forgetting the break_end test
end_disabled_start_only(employee) ==
    ~Truthy(employee.break_start)

end_disabled(employee) ==
    ~Truthy(employee.break_start) \/ Truthy(employee.break_end)

\* the Start Break button of render_time_tracking_controls
StartBreakButton(employee, t) ==
    IF start_disabled(employee)
    THEN [result |-> "Break already in progress!", writes |-> <<>>]
    ELSE IF Truthy(employee.break_start) /\ Truthy(employee.break_end)
    THEN [result |-> "You've already taken a break today.", writes |-> <<>>]
    ELSE [result |-> "ok", writes |-> << <<4, strftime(t)>> >>]

\* the End Break button of render_time_tracking_controls
EndBreakButton(employee, t) ==
    IF end_disabled(employee)
    THEN [result |-> "No active break to end!", writes |-> <<>>]
    ELSE LET break_start == strptime(employee.break_start)
             break_end   == t
             duration    == break_end - break_start
             formatted_duration == format_duration(duration)
         IN  [result |-> "ok",
              writes |-> << <<5, strftime(break_end)>>,
                            <<6, formatted_duration>> >>]

\* LogoutBreakEnd without the auto-end: an open break counts as empty
LogoutBreakEnd_no_auto_end(employee, logout_time) ==
    IF ~Truthy(employee.break_end) THEN strptime(employee.break_start)
    ELSE strptime(employee.break_end)

\* handle_logout: the end of the break that is subtracted (auto-ended at
\* the logout time when the user forgot to end it)
LogoutBreakEnd(employee, logout_time) ==
    IF ~Truthy(employee.break_end) THEN logout_time
    ELSE strptime(employee.break_end)

\* LogoutBreakSecs leaving break_mins at its initial 0
LogoutBreakSecs_zero(employee, logout_time) == 0

\* handle_logout: break_mins, as seconds
LogoutBreakSecs(employee, logout_time) ==
    IF Truthy(employee.break_start)
    THEN LogoutBreakEnd(employee, logout_time) - strptime(employee.break_start)
    ELSE 0

\* LogoutTotalSecs forgetting to subtract the break
LogoutTotalSecs_no_break(login_time, logout_time, break_secs) ==
    logout_time - login_time

\* handle_logout: total_mins = (logout_time - login_time) / 60 - break_mins, as seconds
LogoutTotalSecs(login_time, logout_time, break_secs) ==
    (logout_time - login_time) - break_secs

\* LogoutAccepted writing break_duration also when no break was taken
LogoutAccepted_writes_break(employee, logout_time) ==
    LET login_time == strptime(employee.login_time)
        hasBreak   == Truthy(employee.break_start)
        autoEnd    == hasBreak /\ ~Truthy(employee.break_end)
        break_secs == LogoutBreakSecs(employee, logout_time)
        total_str  == format_duration(LogoutTotalSecs(login_time, logout_time, break_secs))
        status     == evaluate_status(format_duration(break_secs), total_str)
        overtime   == calculate_overtime(login_time, logout_time, break_secs)
    IN  [result |-> "ok",
         writes |->
            << <<3, strftime(logout_time)>> >>
            \o (IF autoEnd THEN << <<5, strftime(logout_time)>> >> ELSE <<>>)
            \o << <<6, format_duration(break_secs)>> >>
            \o << <<7, total_str>>, <<8, <<status>> >>, <<9, <<overtime>> >> >>]

\* handle_logout once the login time is validated: the cells it writes
LogoutAccepted(employee, logout_time) ==
    LET login_time == strptime(employee.login_time)
        hasBreak   == Truthy(employee.break_start)
        autoEnd    == hasBreak /\ ~Truthy(employee.break_end)
        break_secs == LogoutBreakSecs(employee, logout_time)
        total_str  == format_duration(LogoutTotalSecs(login_time, logout_time, break_secs))
        status     == evaluate_status(format_duration(break_secs), total_str)
        overtime   == calculate_overtime(login_time, logout_time, break_secs)
    IN  [result |-> "ok",
         writes |->
            << <<3, strftime(logout_time)>> >>
            \o (IF autoEnd THEN << <<5, strftime(logout_time)>> >> ELSE <<>>)
            \o (IF hasBreak THEN << <<6, format_duration(break_secs)>> >> ELSE <<>>)
            \o << <<7, total_str>>, <<8, <<status>> >>, <<9, <<overtime>> >> >>]

\* handle_logout testing the login time only after the logout time is written
handle_logout_late_check(employee, t) ==
    IF ~Truthy(employee.login_time)
    THEN [result |-> "No login time recorded", writes |-> << <<3, strftime(t)>> >>]
    ELSE LogoutAccepted(employee, t)

handle_logout(employee, t) ==
    IF ~Truthy(employee.login_time)
    THEN [result |-> "No login time recorded", writes |-> <<>>]
    ELSE IF t < strptime(employee.login_time)
    THEN [result |-> "Logout time cannot be before login time", writes |-> <<>>]
    ELSE LogoutAccepted(employee, t)

\* FindRow skipping the first data row as well as the header
FindRow_skip_first(rows, username) ==
    IF \E i \in 3..Len(rows) : rows[i][1] = <<username>>
    THEN CHOOSE i \in 3..Len(rows) :
             /\ rows[i][1] = <<username>>
             /\ \A j \in 3..(i - 1) : rows[j][1] # <<username>>
    ELSE NoRow

\* the scan of handle_login for the user's row (rows[1:], start=2)
FindRow(rows, username) ==
    IF \E i \in 2..Len(rows) : rows[i][1] = <<username>>
    THEN CHOOSE i \in 2..Len(rows) :
             /\ rows[i][1] = <<username>>
             /\ \A j \in 2..(i - 1) : rows[j][1] # <<username>>
    ELSE NoRow

(***************************************************************************)
(* State machine.                                                          *)
(***************************************************************************)
\* call: the latest direct call of a utility function (none in the runs of
\* the application, which reach the utilities through the handlers)
NoCall == [fn |-> "none", args |-> <<>>, done |-> TRUE, result |-> <<>>]

\* last: the latest script run that handled a form or button: what it was
\* asked, the worksheet it started from, what it read and what it reported
Run(op, s, user, result, readOk) ==
    [op |-> op, s |-> s, user |-> user, row_index |-> session[s].row_index,
     result |-> result, read |-> readOk, pre |-> sheet, t |-> now]

Init ==
    /\ sheet = <<Header>>
    /\ session = [s \in Sessions |-> [user |-> NoUser, row_index |-> NoRow]]
    /\ now = 0
    /\ last = [op |-> "none", s |-> "none", user |-> NoUser, row_index |-> NoRow,
               result |-> "none", read |-> TRUE, pre |-> <<Header>>, t |-> 0]
    /\ call = NoCall

\* the wall clock advances between script runs
Tick ==
    /\ \E t \in Instants : t > now /\ now' = t
    /\ UNCHANGED <<sheet, session, last, call>>

\* where a store call of handle_login raises, if any: before the row is
\* appended (get_all_values or append_row) or after it (the get_all_values
\* that computes row_index)
LoginFaults(faulty) ==
    IF faulty THEN <<"none", "before_append", "after_append">> ELSE <<"none">>

\* handle_login(username, password); valid: the password hash matches.
\* st.session_state.user is set before the day's sheet is read, so a store
\* call that raises leaves the user logged in with row_index None.
Login(s, username, valid, fault) ==
    /\ session[s].user = NoUser
    /\ IF ~valid
       THEN /\ UNCHANGED <<sheet, session>>
            /\ last' = Run("login", s, username, "Invalid credentials.", TRUE)
       ELSE LET found == FindRow(sheet, username)
                append == found = NoRow /\ username # "admin" /\ fault # "before_append"
                failed == fault = "before_append" \/ (append /\ fault = "after_append")
            IN  /\ sheet' = IF append THEN Append(sheet, NewRow(username, now))
                            ELSE sheet
                /\ session' = [session EXCEPT
                                  ![s].user = username,
                                  ![s].row_index = IF failed THEN NoRow
                                                   ELSE IF append THEN Len(sheet')
                                                   ELSE found]
                /\ last' = Run("login", s, username,
                               IF failed THEN "failed" ELSE "ok", TRUE)
    /\ UNCHANGED <<now, call>>

\* the sidebar Logout button of render_login_section
SidebarLogout(s) ==
    /\ session[s].user # NoUser
    /\ session' = [session EXCEPT ![s].user = NoUser, ![s].row_index = NoRow]
    /\ last' = Run("sidebar_logout", s, session[s].user, "ok", TRUE)
    /\ UNCHANGED <<sheet, now, call>>

\* render_employee_dashboard is reached by a logged-in user other than admin
OnDashboard(s) == session[s].user # NoUser /\ session[s].user # "admin"

\* the outcomes of sheet.row_values in a run: row_values(None) raises;
\* otherwise the read succeeds or, when the store can fail, raises
ReadOutcomes(s, faulty) ==
    IF session[s].row_index = NoRow THEN <<FALSE>>
    ELSE IF faulty THEN <<TRUE, FALSE>>
    ELSE <<TRUE>>

\* how many of the handler's update_cell calls can fail: update_cell(None, ..)
\* raises at once; otherwise none fails or, when the store can fail, any one
WriteFailures(s, writes, faulty) ==
    IF session[s].row_index = NoRow THEN {Len(writes)}
    ELSE IF faulty THEN 0..Len(writes)
    ELSE {0}

Outcome(out, k) ==
    IF out.result # "ok" THEN out.result
    ELSE IF k = Len(out.writes) THEN "ok" ELSE "failed"

\* one script run of the employee dashboard with the named button pressed:
\* render_employee_dashboard reads the record, then the pressed button's
\* handler runs; its first k update_cell calls succeed and the next raises
ButtonRun(s, op, readOk, faulty) ==
    LET employee == get_employee_record(sheet, session[s].row_index, readOk)
        out == IF op = "start_break" THEN StartBreakButton(employee, now)
               ELSE IF op = "end_break" THEN EndBreakButton(employee, now)
               ELSE handle_logout(employee, now)
    IN  \E f \in WriteFailures(s, out.writes, faulty) :
        LET k   == Len(out.writes) - f
            res == Outcome(out, k)
        IN  /\ sheet' = ApplyWrites(sheet, session[s].row_index, out.writes, k)
            /\ session' = IF op = "logout" /\ res = "ok"
                          THEN [session EXCEPT ![s].user = NoUser,
                                               ![s].row_index = NoRow]
                          ELSE session
            /\ last' = Run(op, s, session[s].user, res, readOk)
            /\ UNCHANGED <<now, call>>

\* a press of one of the three buttons of render_time_tracking_controls
Pressed(s, op, faulty) ==
    \E i \in 1..Len(ReadOutcomes(s, faulty)) :
        ButtonRun(s, op, ReadOutcomes(s, faulty)[i], faulty)

LoginRun(s, faulty) ==
    \E u \in Employees, valid \in BOOLEAN, i \in 1..Len(LoginFaults(faulty)) :
        Login(s, u, valid, LoginFaults(faulty)[i])

StartBreak(s) ==
    /\ OnDashboard(s)
    /\ Pressed(s, "start_break", TRUE)

EndBreak(s) ==
    /\ OnDashboard(s)
    /\ Pressed(s, "end_break", TRUE)

Logout(s) ==
    /\ OnDashboard(s)
    /\ Pressed(s, "logout", TRUE)

StartBreakReliable(s) ==
    /\ OnDashboard(s)
    /\ Pressed(s, "start_break", FALSE)

EndBreakReliable(s) ==
    /\ OnDashboard(s)
    /\ Pressed(s, "end_break", FALSE)

LogoutReliable(s) ==
    /\ OnDashboard(s)
    /\ Pressed(s, "logout", FALSE)

\* the runs of a session whose record store may fail on any call
Next ==
    \/ Tick
    \/ \E s \in Sessions : LoginRun(s, TRUE)
    \/ \E s \in Sessions : SidebarLogout(s)
    \/ \E s \in Sessions : StartBreak(s)
    \/ \E s \in Sessions : EndBreak(s)
    \/ \E s \in Sessions : Logout(s)

\* the same runs when every call of the record store succeeds
NextReliable ==
    \/ Tick
    \/ \E s \in Sessions : LoginRun(s, FALSE)
    \/ \E s \in Sessions : SidebarLogout(s)
    \/ \E s \in Sessions : StartBreakReliable(s)
    \/ \E s \in Sessions : EndBreakReliable(s)
    \/ \E s \in Sessions : LogoutReliable(s)

Spec == Init /\ [][Next]_vars

SpecReliable == Init /\ [][NextReliable]_vars

(***************************************************************************)
(* A working day: the same runs, every store call succeeding, at the       *)
(* times of day 09:00, 13:00, 13:40, 17:00 and 18:00.                      *)
(***************************************************************************)
\* "%H:%M:00" of the day as seconds
TimeOfDay(h, m) == h * 3600 + m * 60

DayInstants ==
    {TimeOfDay(9, 0), TimeOfDay(13, 0), TimeOfDay(13, 40), TimeOfDay(17, 0),
     TimeOfDay(18, 0)}

InitDay ==
    /\ sheet = <<Header>>
    /\ session = [s \in Sessions |-> [user |-> NoUser, row_index |-> NoRow]]
    /\ now = TimeOfDay(9, 0)
    /\ last = [op |-> "none", s |-> "none", user |-> NoUser, row_index |-> NoRow,
               result |-> "none", read |-> TRUE, pre |-> <<Header>>, t |-> 0]
    /\ call = NoCall

TickDay ==
    /\ \E t \in DayInstants : t > now /\ now' = t
    /\ UNCHANGED <<sheet, session, last, call>>

NextDay ==
    \/ TickDay
    \/ \E s \in Sessions : LoginRun(s, FALSE)
    \/ \E s \in Sessions : SidebarLogout(s)
    \/ \E s \in Sessions : StartBreakReliable(s)
    \/ \E s \in Sessions : EndBreakReliable(s)
    \/ \E s \in Sessions : LogoutReliable(s)

SpecDay == InitDay /\ [][NextDay]_vars

(***************************************************************************)
(* The admin dashboard: the admin logs in and views the day's metrics      *)
(* while employees use their dashboard; every store call succeeds.         *)
(***************************************************************************)
\* a cell of the pandas DataFrame: na marks a missing value (NaN / None)
Cell(value) == [na |-> FALSE, value |-> value]

\* sheet.get_all_records() into pd.DataFrame(data): one row per data row of
\* the worksheet, a blank cell arriving as the string "" (default_blank),
\* which is a value, not a missing one
DataFrame(sh) ==
    [i \in 1..(Len(sh) - 1) |-> [c \in 1..9 |-> Cell(sh[i + 1][c])]]

notna(cell) == ~cell.na

isna(cell) == cell.na

\* render_admin_metrics: on_break =
\* len(df[df['Break Start'].notna() & df['Break End'].isna()]), 0 on an empty df
on_break(df) ==
    Cardinality({i \in 1..Len(df) : notna(df[i][4]) /\ isna(df[i][5])})

\* handle_login("admin", ..): the admin gets no row in the day's worksheet
AdminLogin(s) ==
    /\ session[s].user = NoUser
    /\ Login(s, "admin", TRUE, "none")

\* a script run of render_admin_dashboard: reads the worksheet, shows the
\* metrics, writes nothing
AdminView(s) ==
    /\ session[s].user = "admin"
    /\ last' = [op |-> "admin_view", s |-> s, user |-> "admin",
                row_index |-> session[s].row_index, result |-> "ok",
                read |-> TRUE, pre |-> sheet, t |-> now,
                on_break |-> on_break(DataFrame(sheet))]
    /\ UNCHANGED <<sheet, session, now, call>>

\* df['Status'].unique(): the options and the default of the status filter
UniqueStatuses(df) == {df[i][8].value : i \in 1..Len(df)}

\* the order of the Status strings ("" first, then alphabetical)
StatusRank(status) ==
    IF status = Blank THEN 0
    ELSE IF status[1] = EmployeeStatus.COMPLETED THEN 1
    ELSE IF status[1] = EmployeeStatus.INCOMPLETE THEN 2
    ELSE 3

\* the key of df.sort_values for the chosen "Sort by", smaller first:
\* Login Time and Work Minutes descending, Status ascending
SortKey(row, sort_by) ==
    IF sort_by = "Login Time" THEN 0 - strptime(row[2].value)
    ELSE IF sort_by = "Work Time" THEN 0 - time_str_to_minutes(row[7].value)
    ELSE StatusRank(row[8].value)

RECURSIVE sort_values(_, _)
sort_values(df, sort_by) ==
    IF Len(df) <= 1 THEN df
    ELSE LET rest == sort_values(Tail(df), sort_by)
             k == Cardinality({i \in 1..Len(rest) :
                                  SortKey(rest[i], sort_by) < SortKey(Head(df), sort_by)})
         IN  SubSeq(rest, 1, k) \o <<Head(df)>> \o SubSeq(rest, k + 1, Len(rest))

\* render_employee_directory: df[df['Status'].isin(status_filter)] when the
\* filter is not empty, then the sort; both on the DataFrame
Directory(df, status_filter, sort_by) ==
    LET Kept(row) == status_filter = {} \/ row[8].value \in status_filter
    IN  sort_values(SelectSeq(df, Kept), sort_by)

SortOptions == {"Login Time", "Work Time", "Status"}

\* AdminDirectory storing the Work Minutes it sorts on in the worksheet
AdminDirectory_writes_back(s) ==
    /\ session[s].user = "admin"
    /\ \E sort_by \in SortOptions,
          status_filter \in SUBSET UniqueStatuses(DataFrame(sheet)) :
          LET shown == Directory(DataFrame(sheet), status_filter, sort_by)
          IN  /\ last' = [op |-> "admin_directory", s |-> s, user |-> "admin",
                          row_index |-> session[s].row_index, result |-> "ok",
                          read |-> TRUE, pre |-> sheet, t |-> now,
                          sort_by |-> sort_by, directory |-> shown]
              /\ sheet' = IF sort_by = "Work Time"
                          THEN [i \in 1..Len(sheet) |->
                                  IF i = 1 THEN sheet[i]
                                  ELSE [sheet[i] EXCEPT
                                          ![7] = <<time_str_to_minutes(sheet[i][7])>>]]
                          ELSE sheet
    /\ UNCHANGED <<session, now, call>>

\* a script run of render_admin_dashboard with the filter and the sort of
\* the employee directory chosen: reads the worksheet, shows the table
AdminDirectory(s) ==
    /\ session[s].user = "admin"
    /\ \E sort_by \in SortOptions,
          status_filter \in SUBSET UniqueStatuses(DataFrame(sheet)) :
          last' = [op |-> "admin_directory", s |-> s, user |-> "admin",
                   row_index |-> session[s].row_index, result |-> "ok",
                   read |-> TRUE, pre |-> sheet, t |-> now,
                   sort_by |-> sort_by,
                   directory |-> Directory(DataFrame(sheet), status_filter, sort_by)]
    /\ UNCHANGED <<sheet, session, now, call>>

NextAdmin ==
    \/ Tick
    \/ \E s \in Sessions : LoginRun(s, FALSE)
    \/ \E s \in Sessions : AdminLogin(s)
    \/ \E s \in Sessions : SidebarLogout(s)
    \/ \E s \in Sessions : StartBreakReliable(s)
    \/ \E s \in Sessions : EndBreakReliable(s)
    \/ \E s \in Sessions : LogoutReliable(s)
    \/ \E s \in Sessions : AdminView(s)
    \/ \E s \in Sessions : AdminDirectory(s)

SpecAdmin == Init /\ [][NextAdmin]_vars

(***************************************************************************)
(* Two sessions of two employees at one moment.  The store calls of        *)
(* handle_login are separate steps, so that the calls of one session can   *)
(* fall between those of the other; every store call succeeds.  pc is the  *)
(* position of the session's script run inside handle_login.               *)
(***************************************************************************)
Sessions2 == {"s1", "s2"}

\* the employee who uses the session
Owner == [s \in Sessions2 |-> IF s = "s1" THEN "emp1" ELSE "emp2"]

InitConcurrent ==
    /\ sheet = <<Header>>
    /\ session = [s \in Sessions2 |->
                     [user |-> NoUser, row_index |-> NoRow, pc |-> "idle"]]
    /\ now = 0
    /\ last = [op |-> "none", s |-> "none", user |-> NoUser, row_index |-> NoRow,
               result |-> "none", read |-> TRUE, pre |-> <<Header>>, t |-> 0]
    /\ call = NoCall

\* handle_login up to the scan: the user is set, rows = get_all_values()
\* is read and scanned for the user's row
LoginScanAs(s, username) ==
    /\ session[s].pc = "idle"
    /\ session[s].user = NoUser
    /\ LET found == FindRow(sheet, username)
       IN  session' = [session EXCEPT ![s].user = username,
                                      ![s].row_index = found,
                                      ![s].pc = IF found = NoRow THEN "append"
                                                ELSE "idle"]
    /\ last' = Run("login", s, username, "scanned", TRUE)
    /\ UNCHANGED <<sheet, now, call>>

\* each employee logs in from their own session
LoginScan(s) ==
    /\ session[s].pc = "idle"
    /\ LoginScanAs(s, Owner[s])

\* sheet2.append_row([username, get_current_datetime_str()] + [""]*7)
LoginAppend(s) ==
    /\ session[s].pc = "append"
    /\ sheet' = Append(sheet, NewRow(session[s].user, now))
    /\ session' = [session EXCEPT ![s].pc = "count"]
    /\ last' = Run("login", s, session[s].user, "appended", TRUE)
    /\ UNCHANGED <<now, call>>

\* st.session_state.row_index = len(sheet2.get_all_values())
LoginCount(s) ==
    /\ session[s].pc = "count"
    /\ session' = [session EXCEPT ![s].row_index = Len(sheet), ![s].pc = "idle"]
    /\ last' = Run("login", s, session[s].user, "ok", TRUE)
    /\ UNCHANGED <<sheet, now, call>>

\* the dashboard is rendered by a run that is not inside handle_login
DashboardRun(s) == session[s].pc = "idle" /\ OnDashboard(s)

StartBreakConcurrent(s) ==
    /\ DashboardRun(s)
    /\ Pressed(s, "start_break", FALSE)

EndBreakConcurrent(s) ==
    /\ DashboardRun(s)
    /\ Pressed(s, "end_break", FALSE)

LogoutConcurrent(s) ==
    /\ DashboardRun(s)
    /\ Pressed(s, "logout", FALSE)

NextConcurrent ==
    \/ \E s \in Sessions2 : LoginScan(s)
    \/ \E s \in Sessions2 : LoginAppend(s)
    \/ \E s \in Sessions2 : LoginCount(s)
    \/ \E s \in Sessions2 : StartBreakConcurrent(s)
    \/ \E s \in Sessions2 : EndBreakConcurrent(s)
    \/ \E s \in Sessions2 : LogoutConcurrent(s)

SpecConcurrent == InitConcurrent /\ [][NextConcurrent]_vars

\* one employee logs in from both sessions
LoginScanSame(s) ==
    /\ session[s].pc = "idle"
    /\ \E u \in Employees : LoginScanAs(s, u)

NextSameEmployee ==
    \/ \E s \in Sessions2 : LoginScanSame(s)
    \/ \E s \in Sessions2 : LoginAppend(s)
    \/ \E s \in Sessions2 : LoginCount(s)
    \/ \E s \in Sessions2 : StartBreakConcurrent(s)
    \/ \E s \in Sessions2 : EndBreakConcurrent(s)
    \/ \E s \in Sessions2 : LogoutConcurrent(s)

SpecSameEmployee == InitConcurrent /\ [][NextSameEmployee]_vars

(***************************************************************************)
(* An employee's run and another session's reads.  The update_cell calls   *)
(* of a button's handler are separate steps, so that a read of the         *)
(* worksheet by the admin dashboard can fall between two of them; every    *)
(* store call succeeds.  pending holds the update_cell calls the run has   *)
(* still to make.                                                          *)
(***************************************************************************)
InitObserver ==
    /\ sheet = <<Header>>
    /\ session = [s \in Sessions2 |->
                     [user |-> NoUser, row_index |-> NoRow, pc |-> "idle",
                      pending |-> <<>>]]
    /\ now = 0
    /\ last = [op |-> "none", s |-> "none", user |-> NoUser, row_index |-> NoRow,
               result |-> "none", read |-> TRUE, pre |-> <<Header>>, t |-> 0]
    /\ call = NoCall

EmployeeLogin(s) ==
    /\ session[s].pc = "idle"
    /\ LoginRun(s, FALSE)

\* a button of render_time_tracking_controls is pressed: the run reads the
\* record and the handler decides; a rejection ends the run, otherwise the
\* handler's update_cell calls follow one by one
PressBegin(s, op) ==
    /\ DashboardRun(s)
    /\ LET employee == get_employee_record(sheet, session[s].row_index, TRUE)
           out == IF op = "start_break" THEN StartBreakButton(employee, now)
                  ELSE IF op = "end_break" THEN EndBreakButton(employee, now)
                  ELSE handle_logout(employee, now)
       IN  /\ session' = IF out.result = "ok"
                         THEN [session EXCEPT ![s].pc = op,
                                              ![s].pending = out.writes]
                         ELSE session
           /\ last' = Run(op, s, session[s].user,
                          IF out.result = "ok" THEN "writing" ELSE out.result, TRUE)
    /\ UNCHANGED <<sheet, now, call>>

\* the next sheet.update_cell(st.session_state.row_index, col, value) of the
\* run; after the last one handle_logout clears the session
WriteStep(s) ==
    /\ session[s].pc # "idle"
    /\ LET w    == Head(session[s].pending)
           rest == Tail(session[s].pending)
       IN  /\ sheet' = update_cell(sheet, session[s].row_index, w[1], w[2])
           /\ session' =
                IF rest # <<>> THEN [session EXCEPT ![s].pending = rest]
                ELSE IF session[s].pc = "logout"
                THEN [session EXCEPT ![s].pending = rest, ![s].pc = "idle",
                                     ![s].user = NoUser, ![s].row_index = NoRow]
                ELSE [session EXCEPT ![s].pending = rest, ![s].pc = "idle"]
    /\ UNCHANGED <<now, last, call>>

StartBreakBegin(s) ==
    /\ session[s].pc = "idle"
    /\ PressBegin(s, "start_break")

EndBreakBegin(s) ==
    /\ session[s].pc = "idle"
    /\ PressBegin(s, "end_break")

LogoutBegin(s) ==
    /\ session[s].pc = "idle"
    /\ PressBegin(s, "logout")

\* the admin dashboard reads the day's worksheet
ObserverView(s) ==
    /\ session[s].pc = "idle"
    /\ AdminView(s)

NextObserver ==
    \/ \E s \in Sessions2 : EmployeeLogin(s)
    \/ \E s \in Sessions2 : AdminLogin(s)
    \/ \E s \in Sessions2 : StartBreakBegin(s)
    \/ \E s \in Sessions2 : EndBreakBegin(s)
    \/ \E s \in Sessions2 : LogoutBegin(s)
    \/ \E s \in Sessions2 : WriteStep(s)
    \/ \E s \in Sessions2 : ObserverView(s)

SpecObserver == InitObserver /\ [][NextObserver]_vars

(***************************************************************************)
(* The calendar day changes while the session stays open: from then on     *)
(* connect_to_google_sheets opens the new day's worksheet, which it        *)
(* creates with its header row; st.session_state is untouched.  sheet is   *)
(* the worksheet of the current day; every store call succeeds.            *)
(***************************************************************************)
\* number of day changes
MaxDay == 1

DaySeconds == 24 * 3600

NewDay ==
    /\ now \div DaySeconds < MaxDay
    /\ now' = now + DaySeconds
    /\ sheet' = <<Header>>
    /\ UNCHANGED <<session, last, call>>

NextNewDay ==
    \/ NewDay
    \/ \E s \in Sessions : LoginRun(s, FALSE)
    \/ \E s \in Sessions : SidebarLogout(s)
    \/ \E s \in Sessions : StartBreakReliable(s)
    \/ \E s \in Sessions : EndBreakReliable(s)
    \/ \E s \in Sessions : LogoutReliable(s)

SpecNewDay == Init /\ [][NextNewDay]_vars

(***************************************************************************)
(* Session timeout.  Every script run starts with check_session_timeout    *)
(* (render_sidebar), before any form or button is handled; the clock runs  *)
(* over instants up to an hour apart and last_activity is part of the      *)
(* session.  Every store call succeeds.                                    *)
(***************************************************************************)
TimeoutInstants == {0, 900, 1800, 2701, 3601}

InitTimeout ==
    /\ sheet = <<Header>>
    /\ session = [s \in Sessions |->
                     [user |-> NoUser, row_index |-> NoRow, last_activity |-> 0]]
    /\ now = 0
    /\ last = [op |-> "none", s |-> "none", user |-> NoUser, row_index |-> NoRow,
               result |-> "none", read |-> TRUE, pre |-> <<Header>>, t |-> 0,
               gap |-> 0, activity |-> 0]
    /\ call = NoCall

TickTimeout ==
    /\ \E t \in TimeoutInstants : t > now /\ now' = t
    /\ UNCHANGED <<sheet, session, last, call>>

\* check_session_timeout: elapsed > session_timeout
TimedOut(s) == now - session[s].last_activity > SESSION_TIMEOUT

\* the run as observed: gap is the time since the run before it, activity
\* the last_activity the run started with
TimedRun(op, s, user, result) ==
    [op |-> op, s |-> s, user |-> user, row_index |-> session[s].row_index,
     result |-> result, read |-> TRUE, pre |-> sheet, t |-> now,
     gap |-> now - last.t, activity |-> session[s].last_activity]

\* check_session_timeout on a timed-out session: user and row_index are
\* cleared and st.rerun() ends the run before last_activity is assigned
\* and before the widget that started the run is handled
TimeoutRun(s, op) ==
    /\ TimedOut(s)
    /\ session' = [session EXCEPT ![s].user = NoUser, ![s].row_index = NoRow]
    /\ last' = TimedRun(op, s, session[s].user, "Session timed out")
    /\ UNCHANGED <<sheet, now, call>>

\* a run within the timeout that handles no widget
PlainRun(s) ==
    /\ ~TimedOut(s)
    /\ session' = [session EXCEPT ![s].last_activity = now]
    /\ last' = TimedRun("rerun", s, session[s].user, "ok")
    /\ UNCHANGED <<sheet, now, call>>

\* a run within the timeout that handles the login form (valid credentials)
ActiveLogin(s, username) ==
    /\ ~TimedOut(s)
    /\ LET found  == FindRow(sheet, username)
           append == found = NoRow /\ username # "admin"
       IN  /\ sheet' = IF append THEN Append(sheet, NewRow(username, now))
                       ELSE sheet
           /\ session' = [session EXCEPT
                             ![s].user = username,
                             ![s].row_index = IF append THEN Len(sheet') ELSE found,
                             ![s].last_activity = now]
    /\ last' = TimedRun("login", s, username, "ok")
    /\ UNCHANGED <<now, call>>

\* ActiveSidebarLogout recording the logout time in the record
ActiveSidebarLogout_records_logout(s) ==
    /\ ~TimedOut(s)
    /\ session' = [session EXCEPT ![s].user = NoUser, ![s].row_index = NoRow,
                                  ![s].last_activity = now]
    /\ sheet' = IF session[s].row_index = NoRow THEN sheet
                ELSE update_cell(sheet, session[s].row_index, 3, strftime(now))
    /\ last' = TimedRun("sidebar_logout", s, session[s].user, "ok")
    /\ UNCHANGED <<now, call>>

\* a run within the timeout that handles the sidebar Logout button
ActiveSidebarLogout(s) ==
    /\ ~TimedOut(s)
    /\ session' = [session EXCEPT ![s].user = NoUser, ![s].row_index = NoRow,
                                  ![s].last_activity = now]
    /\ last' = TimedRun("sidebar_logout", s, session[s].user, "ok")
    /\ UNCHANGED <<sheet, now, call>>

\* a run within the timeout that handles a button of the employee dashboard
ActivePress(s, op) ==
    /\ ~TimedOut(s)
    /\ LET employee == get_employee_record(sheet, session[s].row_index, TRUE)
           out == IF op = "start_break" THEN StartBreakButton(employee, now)
                  ELSE IF op = "end_break" THEN EndBreakButton(employee, now)
                  ELSE handle_logout(employee, now)
       IN  /\ sheet' = ApplyWrites(sheet, session[s].row_index, out.writes,
                                   Len(out.writes))
           /\ session' = IF op = "logout" /\ out.result = "ok"
                         THEN [session EXCEPT ![s].user = NoUser,
                                              ![s].row_index = NoRow,
                                              ![s].last_activity = now]
                         ELSE [session EXCEPT ![s].last_activity = now]
           /\ last' = TimedRun(op, s, session[s].user, out.result)
    /\ UNCHANGED <<now, call>>

\* the widgets of the page the browser shows: the login form for a
\* logged-out session, the sidebar Logout and the dashboard buttons for a
\* logged-in one; the run they start may find the session timed out
LoginSubmitted(s) ==
    /\ session[s].user = NoUser
    /\ \/ TimeoutRun(s, "login")
       \/ \E u \in Employees : ActiveLogin(s, u)

SidebarLogoutPressed(s) ==
    /\ session[s].user # NoUser
    /\ \/ TimeoutRun(s, "sidebar_logout")
       \/ ActiveSidebarLogout(s)

ButtonPressed(s) ==
    /\ OnDashboard(s)
    /\ \E op \in {"start_break", "end_break", "logout"} :
          \/ TimeoutRun(s, op)
          \/ ActivePress(s, op)

\* a run no widget started: st.rerun() or a reload of the page
Rerun(s) ==
    \/ TimeoutRun(s, "rerun")
    \/ PlainRun(s)

NextTimeout ==
    \/ TickTimeout
    \/ \E s \in Sessions : LoginSubmitted(s)
    \/ \E s \in Sessions : SidebarLogoutPressed(s)
    \/ \E s \in Sessions : ButtonPressed(s)
    \/ \E s \in Sessions : Rerun(s)

SpecTimeout == InitTimeout /\ [][NextTimeout]_vars

(***************************************************************************)
(* The retry decorator.  call holds one call of a function wrapped by       *)
(* retry(max_retries, delay): the position in the wrapper's loop, the       *)
(* outcome of every call of the wrapped function (it raises or returns,     *)
(* as it likes) and the time.sleep() calls made.                            *)
(***************************************************************************)
\* largest max_retries tried
MaxRetries == 3

Delays == {1, 2}

\* what the wrapped function can raise and return
Exceptions == {"APIError", "Timeout"}

Values == {"value"}

RetryPending(max_retries, delay) ==
    [fn |-> "retry", args |-> <<max_retries, delay>>, done |-> FALSE,
     result |-> <<>>, pc |-> "loop", attempt |-> 0, outcomes |-> <<>>,
     waits |-> <<>>, last_exception |-> "None"]

InitRetry ==
    /\ sheet = <<Header>>
    /\ session = [s \in Sessions |-> [user |-> NoUser, row_index |-> NoRow]]
    /\ now = 0
    /\ last = [op |-> "none", s |-> "none", user |-> NoUser, row_index |-> NoRow,
               result |-> "none", read |-> TRUE, pre |-> <<Header>>, t |-> 0]
    /\ call \in {RetryPending(n, d) : n \in 0..MaxRetries, d \in Delays}

RECURSIVE Pow2(_)
\* 2 ** attempt
Pow2(k) == IF k = 0 THEN 1 ELSE 2 * Pow2(k - 1)

\* Backoff growing by the delay instead of doubling
Backoff_linear(delay, attempt) == delay * (attempt + 1)

\* delay * (2 ** attempt)
Backoff(delay, attempt) == delay * Pow2(attempt)

InLoop == call.fn = "retry" /\ call.pc = "loop" /\ call.attempt < call.args[1]

\* return func(*args, **kwargs), func returning
RetryCallReturns ==
    /\ InLoop
    /\ \E v \in Values :
          call' = [call EXCEPT !.outcomes = Append(@, <<"return", v>>),
                               !.done = TRUE, !.result = <<"return", v>>,
                               !.pc = "done"]
    /\ UNCHANGED <<sheet, session, now, last>>

\* func raising: except Exception as e: last_exception = e
RetryCallRaises ==
    /\ InLoop
    /\ \E e \in Exceptions :
          call' = [call EXCEPT !.outcomes = Append(@, <<"raise", e>>),
                               !.last_exception = e, !.pc = "sleep"]
    /\ UNCHANGED <<sheet, session, now, last>>

\* time.sleep(delay * (2 ** attempt)), then the next attempt of the loop
RetrySleep ==
    /\ call.fn = "retry" /\ call.pc = "sleep"
    /\ call' = [call EXCEPT !.waits = Append(@, Backoff(call.args[2], call.attempt)),
                            !.attempt = @ + 1, !.pc = "loop"]
    /\ UNCHANGED <<sheet, session, now, last>>

\* raise last_exception if last_exception else Exception("Unknown error")
RetryExhausted ==
    /\ call.fn = "retry" /\ call.pc = "loop" /\ call.attempt = call.args[1]
    /\ call' = [call EXCEPT !.done = TRUE,
                            !.result = <<"raise", IF call.last_exception = "None"
                                                  THEN "Unknown error"
                                                  ELSE call.last_exception>>,
                            !.pc = "done"]
    /\ UNCHANGED <<sheet, session, now, last>>

NextRetry ==
    \/ RetryCallReturns
    \/ RetryCallRaises
    \/ RetrySleep
    \/ RetryExhausted

\* the wrapper runs on: no step of it waits for anything but time.sleep
SpecRetry == InitRetry /\ [][NextRetry]_vars /\ WF_vars(NextRetry)

(***************************************************************************)
(* Direct calls of the utility functions: the initial state holds the      *)
(* arguments of one call, the action of the function applies it.           *)
(***************************************************************************)
\* "HH:MM" of a number of whole minutes below 100 hours, written out
HHMM(m) ==
    << DigitChar[((m \div 60) \div 10) + 1], DigitChar[((m \div 60) % 10) + 1], ":",
       DigitChar[((m % 60) \div 10) + 1], DigitChar[((m % 60) % 10) + 1] >>

\* strings that are not "HH:MM": None or "", text, three parts, a lone number
Malformed == { <<>>, <<"a", "b">>, <<"1", ":", "2", ":", "3">>, <<"7", "5">> }

BreakMinutes == {0, 49, 50, 51, 70}

WorkMinutes == {0, 479, 480, 481, 500, 1500}

StatusArgs ==
    {<<b, w>> : b \in {HHMM(m) : m \in BreakMinutes} \cup Malformed,
                w \in {HHMM(m) : m \in WorkMinutes} \cup Malformed}

\* timestamps of a day and of the next, in seconds
ClockTimes == {0, 9 * 3600, 17 * 3600, 17 * 3600 + 17, 18 * 3600, 33 * 3600}

\* break lengths in seconds, of which one negative and one below a minute
BreakSecs == {0 - 600, 0, 30, 2400, 4200}

OvertimeArgs ==
    {<<a, b, c>> : a \in {0, 9 * 3600}, b \in ClockTimes, c \in BreakSecs}

\* durations in seconds (minutes * 60), whole and fractional minutes
DurationArgs ==
    {<<60 * m>> : m \in {0 - 61, 0 - 60, 0 - 30, 0 - 1, 0, 1, 59, 60, 61, 500, 1500}}
    \cup {<<0 - 30>>, <<30>>, <<89>>}

HourParts == {<<"0", "0">>, <<"0", "8">>, <<"1", "9">>, <<"9", "9">>, <<"1", "0", "0">>}

MinuteParts == {<<"0", "0">>, <<"0", "5">>, <<"2", "0">>, <<"5", "9">>,
                <<"6", "0">>, <<"7", "5">>, <<"9", "9">>}

DisplayArgs == {<<h \o <<":">> \o m>> : h \in HourParts, m \in MinuteParts}

Pending(fn, args) == [fn |-> fn, args |-> args, done |-> FALSE, result |-> <<>>]

InitUtil ==
    /\ sheet = <<Header>>
    /\ session = [s \in Sessions |-> [user |-> NoUser, row_index |-> NoRow]]
    /\ now = 0
    /\ last = [op |-> "none", s |-> "none", user |-> NoUser, row_index |-> NoRow,
               result |-> "none", read |-> TRUE, pre |-> <<Header>>, t |-> 0]
    /\ call \in {Pending("evaluate_status", a) : a \in StatusArgs}
               \cup {Pending("calculate_overtime", a) : a \in OvertimeArgs}
               \cup {Pending("format_duration", a) : a \in DurationArgs}
               \cup {Pending("format_of_parsed", a) : a \in DisplayArgs}

Returned(result) ==
    /\ call' = [call EXCEPT !.done = TRUE, !.result = result]
    /\ UNCHANGED <<sheet, session, now, last>>

CallEvaluateStatus ==
    /\ call.fn = "evaluate_status" /\ ~call.done
    /\ Returned(evaluate_status(call.args[1], call.args[2]))

CallCalculateOvertime ==
    /\ call.fn = "calculate_overtime" /\ ~call.done
    /\ Returned(calculate_overtime(call.args[1], call.args[2], call.args[3]))

CallFormatDuration ==
    /\ call.fn = "format_duration" /\ ~call.done
    /\ Returned(format_duration(call.args[1]))

\* format_duration(time_str_to_minutes(s)): the parsed minutes are whole
CallFormatOfParsed ==
    /\ call.fn = "format_of_parsed" /\ ~call.done
    /\ Returned(format_duration(60 * time_str_to_minutes(call.args[1])))

NextUtil ==
    \/ CallEvaluateStatus
    \/ CallCalculateOvertime
    \/ CallFormatDuration
    \/ CallFormatOfParsed

SpecUtil == InitUtil /\ [][NextUtil]_vars

(***************************************************************************)
(* Properties.                                                             *)
(* RecIdx is the row of the employee of the latest run in the worksheet    *)
(* the run started from; PreRec and Rec are that record before and after.  *)
(***************************************************************************)
RecIdx == FindRow(last.pre, last.user)

PreRec == last.pre[RecIdx]

Rec == sheet[RecIdx]

BreakOpen(row) == Truthy(row[4]) /\ ~Truthy(row[5])

\* C1: in every record, if login_time, break_start, break_end and
\* logout_time are all set then login_time <= break_start <= break_end <=
\* logout_time.
C1_EventOrder ==
    \A i \in 2..Len(sheet) :
        (Truthy(sheet[i][2]) /\ Truthy(sheet[i][3]) /\ Truthy(sheet[i][4])
            /\ Truthy(sheet[i][5]))
        => /\ sheet[i][2][1] <= sheet[i][4][1]
           /\ sheet[i][4][1] <= sheet[i][5][1]
           /\ sheet[i][5][1] <= sheet[i][3][1]

\* C2: LoggedOut is terminal: a login, StartBreak, EndBreak or Logout run on
\* a record whose logout_time is set leaves every field of the record as it
\* was.
C2_LoggedOutTerminal ==
    (/\ last.op \in {"login", "start_break", "end_break", "logout"}
     /\ RecIdx # NoRow
     /\ Truthy(PreRec[3]))
    => Rec = PreRec

\* C3: login_time is set once, when the row is created at the first login
\* (one row per employee, holding the time of that login); no run changes
\* the login_time of an existing row, and a login of an employee whose row
\* exists leaves the worksheet as it was.
C3_LoginOnce ==
    /\ \A i \in 2..Len(last.pre) : sheet[i][2] = last.pre[i][2]
    /\ \A i \in 2..Len(sheet) : Truthy(sheet[i][2])
    /\ \A i, j \in 2..Len(sheet) : sheet[i][1] = sheet[j][1] => i = j
    /\ (last.op = "login" /\ RecIdx # NoRow) => sheet = last.pre
    /\ (last.op = "login" /\ last.result = "ok" /\ RecIdx = NoRow)
       => sheet = Append(last.pre, NewRow(last.user, last.t))

\* a second login of the day, on a record that already carries a break start
C3_Witness ==
    /\ last.op = "login"
    /\ last.result = "ok"
    /\ RecIdx # NoRow
    /\ Truthy(PreRec[4])
    /\ last.t > PreRec[2][1]

\* C4: a StartBreak run on a record whose break is open is rejected and
\* leaves the record as it was.
C4_StartBreakWhileOpen ==
    (last.op = "start_break" /\ RecIdx # NoRow /\ BreakOpen(PreRec))
    => (last.result # "ok" /\ Rec = PreRec)

\* C5: at most one break per day: a StartBreak run on a record with a
\* completed break is rejected, and no StartBreak run overwrites a
\* break_start that is set.
C5_OneBreakPerDay ==
    (last.op = "start_break" /\ RecIdx # NoRow /\ Truthy(PreRec[4]))
    => /\ Rec[4] = PreRec[4]
       /\ Truthy(PreRec[5]) => last.result = "You've already taken a break today."

\* C6: a successful EndBreak sets break_end to the run's timestamp and
\* break_duration to the HH:MM of the whole minutes from break_start to that
\* timestamp, and changes nothing else.
C6_EndBreakEffect ==
    (last.op = "end_break" /\ last.result = "ok")
    => /\ RecIdx # NoRow
       /\ sheet = [last.pre EXCEPT
                      ![RecIdx][5] = <<last.t>>,
                      ![RecIdx][6] = HHMM((last.t - PreRec[4][1]) \div 60)]

\* an EndBreak that closed a break of one minute
C6_Witness ==
    /\ last.op = "end_break"
    /\ last.result = "ok"
    /\ Rec[5] = <<last.t>>
    /\ Rec[6] = <<"0", "0", ":", "0", "1">>

\* C7: EndBreak is accepted only on a record whose break is open; on any
\* other record, in particular one whose break a previous EndBreak closed,
\* it is rejected and the worksheet stays as it was.
C7_EndBreakGuard ==
    last.op = "end_break"
    => /\ last.result # "No active break to end!"
          => (RecIdx # NoRow /\ BreakOpen(PreRec))
       /\ (RecIdx = NoRow \/ ~BreakOpen(PreRec))
          => (last.result = "No active break to end!" /\ sheet = last.pre)

\* EndBreak again in the second in which an EndBreak closed the break
C7_Witness ==
    /\ last.op = "end_break"
    /\ last.read
    /\ last.result = "No active break to end!"
    /\ RecIdx # NoRow
    /\ PreRec[5] = <<last.t>>
    /\ Truthy(PreRec[6])
    /\ ~Truthy(PreRec[3])
    /\ sheet = last.pre

\* C8: a successful Logout on a record whose break is open closes the break
\* at the logout timestamp: break_end = logout_time, break_duration is the
\* HH:MM of break_start to logout_time, and total_work_time is the HH:MM of
\* login to logout less that break.
C8_LogoutClosesBreak ==
    (last.op = "logout" /\ last.result = "ok" /\ BreakOpen(PreRec))
    => /\ Rec[3] = <<last.t>>
       /\ Rec[5] = Rec[3]
       /\ Rec[6] = HHMM((last.t - PreRec[4][1]) \div 60)
       /\ Rec[7] = HHMM(((last.t - PreRec[2][1]) - (last.t - PreRec[4][1])) \div 60)

\* a Logout that closed an open break of one minute
C8_Witness ==
    /\ last.op = "logout"
    /\ last.result = "ok"
    /\ BreakOpen(PreRec)
    /\ Rec[6] = <<"0", "0", ":", "0", "1">>

\* C9: a Logout run whose record has no login_time is rejected and writes
\* nothing.
C9_LogoutWithoutLogin ==
    (/\ last.op = "logout"
     /\ ~Truthy(get_employee_record(last.pre, last.row_index, last.read).login_time))
    => (last.result = "No login time recorded" /\ sheet = last.pre)

\* a Logout whose read of the record came back without a login time, while
\* the row of the employee exists
C9_Witness ==
    /\ last.op = "logout"
    /\ last.result = "No login time recorded"
    /\ last.row_index # NoRow
    /\ RecIdx # NoRow
    /\ sheet = last.pre

\* the value the specification gives total_work_time: the whole minutes from
\* login to logout less the minutes of the stored break_duration
StoredBreakWorkMinutes(row) ==
    ((row[3][1] - row[2][1]) \div 60) - time_str_to_minutes(row[6])

\* C10 as stated: after every successful Logout total_work_time is
\* minutesToDisplay(elapsedMinutes(login_time, logout_time) -
\* displayToMinutes(break_duration)), also for breaks that are not a whole
\* number of minutes.
C10_WorkTimeFromStoredBreak ==
    (last.op = "logout" /\ last.result = "ok")
    => Rec[7] = HHMM(StoredBreakWorkMinutes(Rec))

\* C10 amended: that equation holds when the record has no break or a break
\* that EndBreak closed after a whole number of minutes; otherwise
\* total_work_time is that value or one minute less, because the unrounded
\* break is subtracted.
C10_WorkTimeFromExactBreak ==
    (last.op = "logout" /\ last.result = "ok")
    => LET v == StoredBreakWorkMinutes(Rec)
           whole == \/ ~Truthy(PreRec[4])
                    \/ /\ Truthy(PreRec[5])
                       /\ (PreRec[5][1] - PreRec[4][1]) % 60 = 0
       IN  /\ v >= 0
           /\ whole => Rec[7] = HHMM(v)
           /\ \/ Rec[7] = HHMM(v)
              \/ (v >= 1 /\ Rec[7] = HHMM(v - 1))

\* a Logout after a break of half a minute: total_work_time is one minute
\* less than the stored break_duration gives
C10_Witness ==
    /\ last.op = "logout"
    /\ last.result = "ok"
    /\ Truthy(PreRec[5])
    /\ StoredBreakWorkMinutes(Rec) >= 1
    /\ Rec[7] = HHMM(StoredBreakWorkMinutes(Rec) - 1)

\* C11: in every state between runs the derived cells of every record match
\* its timestamps: when break_start and break_end are set, break_duration is
\* the rendering of break_end - break_start; when logout_time is set,
\* total_work_time, status and overtime are the values handle_logout
\* computes from the record's current login_time, logout_time, break_start
\* and break_end.
C11_DerivedMatchRaw ==
    \A i \in 2..Len(sheet) :
        LET e == get_employee_record(sheet, i, TRUE)
        IN  /\ (Truthy(e.break_start) /\ Truthy(e.break_end))
               => e.break_duration
                    = format_duration(strptime(e.break_end) - strptime(e.break_start))
            /\ Truthy(e.logout_time)
               => LET login_time  == strptime(e.login_time)
                      logout_time == strptime(e.logout_time)
                      break_secs  == LogoutBreakSecs(e, logout_time)
                  IN  /\ e.work_time
                           = format_duration(LogoutTotalSecs(login_time, logout_time, break_secs))
                      /\ e.status = <<evaluate_status(e.break_duration, e.work_time)>>
                      /\ e.overtime
                           = <<calculate_overtime(login_time, logout_time, break_secs)>>

\* C12: a StartBreak, EndBreak or Logout run in which a call of the record
\* store raises while the run writes leaves the worksheet as it was before
\* the run.
C12_FailedRunWritesNothing ==
    (/\ last.op \in {"start_break", "end_break", "logout"}
     /\ last.read
     /\ last.result = "failed")
    => sheet = last.pre

\* the minutes a string of the form "HH:MM" stands for; 0 for any other
\* string
ClockMinutes(str) ==
    IF Len(str) = 5 /\ str[3] = ":"
    THEN (10 * DigitVal(str[1]) + DigitVal(str[2])) * 60
         + 10 * DigitVal(str[4]) + DigitVal(str[5])
    ELSE 0

\* C13: evaluate_status returns a status for every pair of strings:
\* Completed exactly when the work minutes are at least 480 and the break
\* minutes at most 50, Over Break exactly when the break minutes exceed 50
\* (whatever the work minutes), Incomplete in the remaining cases.
C13_StatusCases ==
    (call.fn = "evaluate_status" /\ call.done)
    => LET b == ClockMinutes(call.args[1])
           w == ClockMinutes(call.args[2])
       IN  /\ call.result \in {EmployeeStatus.COMPLETED, EmployeeStatus.OVER_BREAK,
                               EmployeeStatus.INCOMPLETE}
           /\ call.result = EmployeeStatus.COMPLETED <=> (w >= 480 /\ b <= 50)
           /\ call.result = EmployeeStatus.OVER_BREAK <=> b > 50
           /\ call.result = EmployeeStatus.INCOMPLETE <=> (w < 480 /\ b <= 50)

\* a break of 70 minutes on a day of 25 hours of work: Over Break
C13_Witness ==
    /\ call.fn = "evaluate_status"
    /\ call.done
    /\ call.args = << <<"0", "1", ":", "1", "0">>, <<"2", "5", ":", "0", "0">> >>
    /\ call.result = EmployeeStatus.OVER_BREAK

\* C14: calculate_overtime is never negative, also for a logout before the
\* login, and it is 0 whenever the time from login to logout less the break
\* is at most 480 minutes.
C14_OvertimeNonNegative ==
    (call.fn = "calculate_overtime" /\ call.done)
    => /\ call.result >= 0
       /\ (call.args[2] - call.args[1]) - call.args[3] <= 480 * 60
          => call.result = 0

\* a logout nine hours before the login: no overtime
C14_Witness ==
    /\ call.fn = "calculate_overtime"
    /\ call.done
    /\ call.args[2] < call.args[1]
    /\ call.result = 0

\* C17: format_duration returns "00:00" for every negative number of
\* minutes, and for every whole number m >= 0 of minutes the zero-padded
\* m div 60 and m mod 60.
C17_ClampAndPad ==
    (call.fn = "format_duration" /\ call.done)
    => /\ call.args[1] < 0 => call.result = <<"0", "0", ":", "0", "0">>
       /\ (call.args[1] >= 0 /\ call.args[1] % 60 = 0)
          => call.result = HHMM(call.args[1] \div 60)

\* C18: format_duration(time_str_to_minutes(s)) = s for every string s of
\* zero-padded hours, a colon and two digits of minutes below 60.
C18_RoundTrip ==
    (/\ call.fn = "format_of_parsed"
     /\ call.done
     /\ call.args[1][Len(call.args[1]) - 1] \in {"0", "1", "2", "3", "4", "5"})
    => call.result = call.args[1]

\* "19:59" parsed and rendered again
C18_Witness ==
    /\ call.fn = "format_of_parsed"
    /\ call.done
    /\ call.args[1] = <<"1", "9", ":", "5", "9">>
    /\ call.result = <<"1", "9", ":", "5", "9">>

\* the Logout at 18:00 of scenario A: login at 09:00, break from 13:00 to
\* 13:40 closed by EndBreak, no logout yet
ScenarioA ==
    /\ last.op = "logout"
    /\ last.result = "ok"
    /\ last.t = TimeOfDay(18, 0)
    /\ PreRec[2] = <<TimeOfDay(9, 0)>>
    /\ PreRec[3] = Blank
    /\ PreRec[4] = <<TimeOfDay(13, 0)>>
    /\ PreRec[5] = <<TimeOfDay(13, 40)>>

\* C15 as stated: scenario A ends with break_duration "00:40",
\* total_work_time "08:20", status Completed and overtime 0.0.
C15_ScenarioA_NoOvertime ==
    ScenarioA
    => /\ Rec[6] = <<"0", "0", ":", "4", "0">>
       /\ Rec[7] = <<"0", "8", ":", "2", "0">>
       /\ Rec[8] = <<"Completed">>
       /\ Rec[9] = <<0>>

\* C15 amended: scenario A ends with break_duration "00:40",
\* total_work_time "08:20", status Completed and overtime 0.33 hours (the
\* 20 minutes worked beyond 480).
C15_ScenarioA ==
    ScenarioA
    => /\ Rec[3] = <<TimeOfDay(18, 0)>>
       /\ Rec[6] = <<"0", "0", ":", "4", "0">>
       /\ Rec[7] = <<"0", "8", ":", "2", "0">>
       /\ Rec[8] = <<"Completed">>
       /\ Rec[9] = <<33>>

\* scenario A was run to its Logout
C15_Witness ==
    /\ ScenarioA
    /\ PreRec[6] = <<"0", "0", ":", "4", "0">>
    /\ Rec[3] = <<TimeOfDay(18, 0)>>
    /\ Truthy(Rec[9])

\* C16 as stated: after a successful Logout on a record without a break,
\* break_duration is "00:00", total_work_time is the rendering of
\* logout_time - login_time and status is Completed when that is at least
\* 480 minutes.
C16_NoBreakZeroDuration ==
    (last.op = "logout" /\ last.result = "ok" /\ ~Truthy(PreRec[4]))
    => /\ Rec[6] = <<"0", "0", ":", "0", "0">>
       /\ Rec[7] = HHMM((Rec[3][1] - Rec[2][1]) \div 60)
       /\ (Rec[3][1] - Rec[2][1]) \div 60 >= 480 => Rec[8] = <<"Completed">>

\* C16 amended: after a successful Logout on a record without a break,
\* break_start, break_end and break_duration are still blank,
\* total_work_time is the rendering of logout_time - login_time ("08:00"
\* for 09:00 to 17:00) and status is Completed exactly when that is at
\* least 480 minutes.
C16_NoBreakBlankDuration ==
    (last.op = "logout" /\ last.result = "ok" /\ ~Truthy(PreRec[4]))
    => /\ Rec[4] = Blank /\ Rec[5] = Blank /\ Rec[6] = Blank
       /\ Rec[3] = <<last.t>>
       /\ Rec[7] = HHMM((Rec[3][1] - Rec[2][1]) \div 60)
       /\ (Rec[2] = <<TimeOfDay(9, 0)>> /\ last.t = TimeOfDay(17, 0))
          => Rec[7] = <<"0", "8", ":", "0", "0">>
       /\ Rec[8] = <<"Completed">> <=> (Rec[3][1] - Rec[2][1]) \div 60 >= 480

\* scenario C: login at 09:00, Logout at 17:00, no break
C16_Witness ==
    /\ last.op = "logout"
    /\ last.result = "ok"
    /\ ~Truthy(PreRec[4])
    /\ PreRec[2] = <<TimeOfDay(9, 0)>>
    /\ PreRec[3] = Blank
    /\ last.t = TimeOfDay(17, 0)
    /\ Rec[8] = <<"Completed">>

\* C19: the On Break figure of an admin view is the number of records of
\* the day whose break_start is set and whose break_end is unset (the blank
\* cell).
C19_OnBreakCount ==
    last.op = "admin_view"
    => last.on_break = Cardinality({i \in 2..Len(sheet) : BreakOpen(sheet[i])})

\* C20: every cell a StartBreak, EndBreak or Logout run of a session writes
\* is in the row whose Employee Name is the session's user: a row that the
\* run changed carries the name of the user of the run.
C20_SingleWriter ==
    last.op \in {"start_break", "end_break", "logout"}
    => \A i \in 2..Len(last.pre) :
           sheet[i] # last.pre[i] => sheet[i][1] = <<last.user>>

\* C21: the day's worksheet has at most one row per employee, also when
\* the employee logs in from two sessions whose login steps interleave, and
\* no step changes the Employee Name of an existing row.
C21_OneRowPerEmployee ==
    /\ \A i, j \in 2..Len(sheet) : sheet[i][1] = sheet[j][1] => i = j
    /\ \A i \in 2..Len(last.pre) : sheet[i][1] = last.pre[i][1]

\* C22: a read of the day's worksheet by the admin dashboard never sees a
\* record with break_end set and break_duration still blank, nor one with
\* logout_time set and total_work_time, status or overtime still blank.
C22_ObserverSeesWholeTransitions ==
    last.op = "admin_view"
    => \A i \in 2..Len(last.pre) :
           /\ Truthy(last.pre[i][5]) => Truthy(last.pre[i][6])
           /\ Truthy(last.pre[i][3])
              => /\ Truthy(last.pre[i][7])
                 /\ Truthy(last.pre[i][8])
                 /\ Truthy(last.pre[i][9])

\* C23: a StartBreak, EndBreak or Logout run that writes, writes to a row
\* of the current day's worksheet that a login created for the user of the
\* run (such a row carries the user's name), also after the day changed
\* while the session stayed logged in.
C23_WritesOwnRowOfToday ==
    (last.op \in {"start_break", "end_break", "logout"} /\ sheet # last.pre)
    => /\ last.row_index \in 2..Len(last.pre)
       /\ last.pre[last.row_index][1] = <<last.user>>

\* C24: a run of the admin dashboard (metrics, directory with its filter
\* and sort) leaves the day's worksheet as it was.
C24_AdminViewsReadOnly ==
    last.op \in {"admin_view", "admin_directory"} => sheet = last.pre

\* the admin sorts the directory, which holds the logged-out record of the
\* day, by work time
C24_Witness ==
    /\ last.op = "admin_directory"
    /\ last.sort_by = "Work Time"
    /\ Len(last.directory) = 1
    /\ Truthy(last.directory[1][7].value)
    /\ sheet = last.pre

\* C25: a run that starts more than 1800 seconds after the session's
\* last_activity clears user and row_index and writes nothing; a run that
\* starts within 1800 seconds keeps the session's timeout clock running
\* from the time of the run; and a run times the session out only when more
\* than 1800 seconds passed since the run before it.
C25_TimeoutAfterIdleGap ==
    last.op # "none"
    => /\ last.t - last.activity > 1800
          => /\ last.result = "Session timed out"
             /\ session[last.s].user = NoUser
             /\ session[last.s].row_index = NoRow
             /\ sheet = last.pre
       /\ last.t - last.activity <= 1800
          => /\ last.result # "Session timed out"
             /\ session[last.s].last_activity = last.t
       /\ last.result = "Session timed out" => last.gap > 1800

\* C26: a sidebar Logout and a timed-out run clear the session's user and
\* row_index and leave the worksheet as it was; logout_time,
\* total_work_time, status and overtime of a record change only in a
\* successful dashboard Logout.
C26_SessionEndKeepsRecord ==
    /\ (last.op = "sidebar_logout" \/ last.result = "Session timed out")
       => /\ sheet = last.pre
          /\ session[last.s].user = NoUser
          /\ session[last.s].row_index = NoRow
    /\ \A i \in 2..Len(last.pre) :
           (\E c \in {3, 7, 8, 9} : sheet[i][c] # last.pre[i][c])
           => (last.op = "logout" /\ last.result = "ok")

\* a sidebar Logout of an employee whose record has no logout_time
C26_Witness ==
    /\ last.op = "sidebar_logout"
    /\ last.result = "ok"
    /\ last.user = "emp1"
    /\ Len(sheet) = 2
    /\ ~Truthy(sheet[2][3])
    /\ session[last.s].user = NoUser

\* the wrapped function was called at most max_retries times and never
\* after a call that returned; a finished call of the wrapper returned the
\* result of the call that did not raise, or, all max_retries calls having
\* raised, raised the exception of the last; the k-th wait (k from 0) is
\* delay * 2^k and a wait follows every failed call, the last included
RetryContract ==
    LET n == call.args[1]
        d == call.args[2]
        o == call.outcomes
        Raised(k) == o[k][1] = "raise"
    IN  /\ Len(o) <= n
        /\ \A k \in 1..(Len(o) - 1) : Raised(k)
        /\ \A k \in 1..Len(call.waits) :
               call.waits[k] = d * <<1, 2, 4, 8, 16>>[k]
        /\ call.done
           => /\ Len(call.waits) = Cardinality({k \in 1..Len(o) : Raised(k)})
              /\ \/ /\ Len(o) > 0
                    /\ ~Raised(Len(o))
                    /\ call.result = o[Len(o)]
                 \/ /\ Len(o) = n
                    /\ \A k \in 1..n : Raised(k)
                    /\ call.result[1] = "raise"
                    /\ n > 0 => call.result = o[n]

\* C27: a function wrapped by retry(max_retries=n, delay=d) is called at
\* most n times; the wrapper returns the result of the first call that does
\* not raise and calls no more; when all n calls raise it ends by raising
\* the exception of the last call; after the k-th failed call (k from 0) it
\* waits d * 2^k, also after the last one; and the wrapper always finishes.
C27_Retry == [](call.fn = "retry" => RetryContract) /\ <>(call.done)

\* three calls raised, the waits were 2, 4 and 8, and the wrapper raised
\* the exception of the third call
C27_Witness ==
    /\ call.fn = "retry"
    /\ call.done
    /\ call.args = <<3, 2>>
    /\ call.waits = <<2, 4, 8>>
    /\ call.outcomes[2] = <<"raise", "APIError">>
    /\ call.result = <<"raise", "Timeout">>

====
